---- MODULE Spec2Model ----
(***************************************************************************)
(* Model of src/src/app.py: the Mergington High School activities API.     *)
(* The three module-level dictionaries (users, active_sessions,            *)
(* activities) are the state. Under Spec the requests are served one after *)
(* another and every endpoint is one action. Under SpecThreads the         *)
(* handlers, which are plain def functions that FastAPI runs on worker     *)
(* threads, are served by several workers at once; threads holds what each *)
(* worker is in the middle of.                                             *)
(*                                                                         *)
(* Strings that carry upper-case letters are lower-cased through           *)
(* LowerTable; every string that is not a key of it is already lower case. *)
(* An Authorization header is a sequence of atoms ("Bearer ", " ", a       *)
(* token, ...), the empty sequence standing for a missing or empty header. *)
(* A token string is the sequence of atoms left after removeprefix/strip.  *)
(* secrets.token_urlsafe(32) is modelled as the choice of a token that was *)
(* never returned before (256 random bits do not repeat).                  *)
(* issued and revoked are history variables: the tokens that logins have   *)
(* returned, and the tokens that a successful logout has presented.        *)
(***************************************************************************)
EXTENDS Integers, Sequences, FiniteSets, TLC

VARIABLES users, active_sessions, activities, issued, revoked, threads

vars == <<users, active_sessions, activities, issued, revoked, threads>>

----------------------------------------------------------------------------
(* Bounds of the model *)

MaxTokens == 2
NumStudents == 9
NumWorkers == 2

Workers == 1..NumWorkers

AllTokens == <<"tok1", "tok2", "tok3", "tok4">>
TokenPool == {AllTokens[i] : i \in 1..MaxTokens}
ForgedToken == "forged"

AllStudents ==
    <<"student01@mergington.edu", "student02@mergington.edu",
      "student03@mergington.edu", "student04@mergington.edu",
      "student05@mergington.edu", "student06@mergington.edu",
      "student07@mergington.edu", "student08@mergington.edu",
      "student09@mergington.edu", "student10@mergington.edu",
      "student11@mergington.edu">>
Students == {AllStudents[i] : i \in 1..NumStudents}
StudentIndex(e) == CHOOSE i \in 1..NumStudents : AllStudents[i] = e

----------------------------------------------------------------------------
(* Python helpers *)

LowerTable ==
    ("MEMBER@mergington.edu" :> "member@mergington.edu") @@
    ("New@Mergington.edu" :> "new@mergington.edu") @@
    ("Michael@mergington.edu" :> "michael@mergington.edu") @@
    ("Member" :> "member") @@
    ("ADMIN" :> "admin")

Lower_AsGiven(s) == s

Lower(s) == IF s \in DOMAIN LowerTable THEN LowerTable[s] ELSE s

DictPut(d, k, v) == [x \in (DOMAIN d) \cup {k} |-> IF x = k THEN v ELSE d[x]]

DictPop(d, k) == [x \in (DOMAIN d) \ {k} |-> d[x]]

InList(x, list) == \E i \in 1..Len(list) : list[i] = x

ListRemove_OffByOne(list, x) ==
    LET i == CHOOSE j \in 1..Len(list) :
                 list[j] = x /\ \A k \in 1..(j - 1) : list[k] # x
        d == IF i > 1 THEN i - 1 ELSE i
    IN  SubSeq(list, 1, d - 1) \o SubSeq(list, d + 1, Len(list))

\* the last entry takes the place of the removed one
ListRemove_SwapWithLast(list, x) ==
    LET i == CHOOSE j \in 1..Len(list) :
                 list[j] = x /\ \A k \in 1..(j - 1) : list[k] # x
    IN  [k \in 1..(Len(list) - 1) |->
            IF k = i THEN list[Len(list)] ELSE list[k]]

ListRemove(list, x) ==
    LET i == CHOOSE j \in 1..Len(list) :
                 list[j] = x /\ \A k \in 1..(j - 1) : list[k] # x
    IN  SubSeq(list, 1, i - 1) \o SubSeq(list, i + 1, Len(list))

StartsWithBearer(authorization) ==
    authorization # <<>> /\ Head(authorization) = "Bearer "

RemovePrefixBearer(authorization) ==
    IF StartsWithBearer(authorization) THEN Tail(authorization)
    ELSE authorization

RECURSIVE LStrip(_)
LStrip(s) == IF s # <<>> /\ Head(s) = " " THEN LStrip(Tail(s)) ELSE s

RECURSIVE RStrip(_)
RStrip(s) ==
    IF s # <<>> /\ s[Len(s)] = " " THEN RStrip(SubSeq(s, 1, Len(s) - 1))
    ELSE s

Strip(s) == RStrip(LStrip(s))

ROLES == {"member", "admin", "supervisor"}

hash_password(password) == <<"sha256", password>>

----------------------------------------------------------------------------
(* Seed data *)

Activity(description, schedule, max_participants, participants) ==
    [description |-> description, schedule |-> schedule,
     max_participants |-> max_participants, participants |-> participants]

SeedActivities ==
    ("Chess Club" :> Activity(
        "Learn strategies and compete in chess tournaments",
        "Fridays, 3:30 PM - 5:00 PM", 12,
        <<"michael@mergington.edu", "daniel@mergington.edu">>)) @@
    ("Programming Class" :> Activity(
        "Learn programming fundamentals and build software projects",
        "Tuesdays and Thursdays, 3:30 PM - 4:30 PM", 20,
        <<"emma@mergington.edu", "sophia@mergington.edu">>)) @@
    ("Gym Class" :> Activity(
        "Physical education and sports activities",
        "Mondays, Wednesdays, Fridays, 2:00 PM - 3:00 PM", 30,
        <<"john@mergington.edu", "olivia@mergington.edu">>)) @@
    ("Soccer Team" :> Activity(
        "Join the school soccer team and compete in matches",
        "Tuesdays and Thursdays, 4:00 PM - 5:30 PM", 22,
        <<"liam@mergington.edu", "noah@mergington.edu">>)) @@
    ("Basketball Team" :> Activity(
        "Practice and play basketball with the school team",
        "Wednesdays and Fridays, 3:30 PM - 5:00 PM", 15,
        <<"ava@mergington.edu", "mia@mergington.edu">>)) @@
    ("Art Club" :> Activity(
        "Explore your creativity through painting and drawing",
        "Thursdays, 3:30 PM - 5:00 PM", 15,
        <<"amelia@mergington.edu", "harper@mergington.edu">>)) @@
    ("Drama Club" :> Activity(
        "Act, direct, and produce plays and performances",
        "Mondays and Wednesdays, 4:00 PM - 5:30 PM", 20,
        <<"ella@mergington.edu", "scarlett@mergington.edu">>)) @@
    ("Math Club" :> Activity(
        "Solve challenging problems and participate in math competitions",
        "Tuesdays, 3:30 PM - 4:30 PM", 10,
        <<"james@mergington.edu", "benjamin@mergington.edu">>)) @@
    ("Debate Team" :> Activity(
        "Develop public speaking and argumentation skills",
        "Fridays, 4:00 PM - 5:30 PM", 12,
        <<"charlotte@mergington.edu", "henry@mergington.edu">>))

UserRecord(password_hash, role) ==
    [password_hash |-> password_hash, role |-> role]

SeedUsers ==
    ("member@mergington.edu" :>
        UserRecord(hash_password("member123"), "member")) @@
    ("admin@mergington.edu" :>
        UserRecord(hash_password("admin123"), "admin")) @@
    ("supervisor@mergington.edu" :>
        UserRecord(hash_password("supervisor123"), "supervisor"))

----------------------------------------------------------------------------
(* The store the handlers read and write, and the result of a handler *)

Store(u, s, a) == [users |-> u, active_sessions |-> s, activities |-> a]

Current == Store(users, active_sessions, activities)

\* raise HTTPException(status_code, detail): nothing was written before it
HTTPException(st, status_code, detail) ==
    [status |-> status_code, body |-> [detail |-> detail], store |-> st]

Ok(st, body) == [status |-> 200, body |-> body, store |-> st]

----------------------------------------------------------------------------
(* Authentication and authorization dependencies *)

\* Python's None, and every other falsy value a dict.get can return here
None == ""

SessionGet(st, token) ==
    IF token \in DOMAIN st.active_sessions THEN st.active_sessions[token]
    ELSE None

\* the token string a header carries: authorization.removeprefix(..).strip()
HeaderToken(authorization) == Strip(RemovePrefixBearer(authorization))

get_current_user(st, authorization) ==
    IF ~StartsWithBearer(authorization)
    THEN HTTPException(st, 401, "Missing or invalid authorization header")
    ELSE LET token == HeaderToken(authorization)
             email == SessionGet(st, token)
         IN  IF email = None
             THEN HTTPException(st, 401, "Invalid or expired session token")
             ELSE IF email \notin DOMAIN st.users
             THEN HTTPException(st, 401, "User not found")
             ELSE Ok(st, [email |-> email, role |-> st.users[email].role])

require_roles(allowed_roles, st, authorization) ==
    LET current_user == get_current_user(st, authorization)
    IN  IF current_user.status # 200 THEN current_user
        ELSE IF current_user.body.role \notin allowed_roles
        THEN HTTPException(st, 403,
                           "You do not have permission for this action")
        ELSE current_user

----------------------------------------------------------------------------
(* Endpoints, as functions from the store and the request to the result *)

root(st) ==
    [status |-> 307, body |-> [location |-> "/static/index.html"],
     store |-> st]

get_activities(st) == Ok(st, st.activities)

UserExists_WrongDict(st, email) == email \in DOMAIN st.activities

UserExists(st, email) == email \in DOMAIN st.users

register_user_WritesFirst(st, payload) ==
    LET email == Lower(payload.email)
        role == Lower(payload.role)
        written == [st EXCEPT !.users =
                       DictPut(@, email,
                               UserRecord(hash_password(payload.password),
                                          role))]
    IN  IF role \notin ROLES
        THEN HTTPException(written, 400, "Invalid role")
        ELSE IF role # "member"
        THEN HTTPException(written, 403,
                           "Self-registration only supports member role")
        ELSE IF UserExists(st, email)
        THEN HTTPException(written, 400, "User already exists")
        ELSE Ok(written,
                [message |-> "Registration successful", email |-> email,
                 role |-> role])

register_user_AnyRole(st, payload) ==
    LET email == Lower(payload.email)
        role == Lower(payload.role)
    IN  IF role \notin ROLES
        THEN HTTPException(st, 400, "Invalid role")
        ELSE IF UserExists(st, email)
        THEN HTTPException(st, 400, "User already exists")
        ELSE Ok([st EXCEPT !.users =
                    DictPut(@, email,
                            UserRecord(hash_password(payload.password), role))],
                [message |-> "Registration successful", email |-> email,
                 role |-> role])

register_user_Always400(st, payload) ==
    LET email == Lower(payload.email)
        role == Lower(payload.role)
    IN  IF role \notin ROLES
        THEN HTTPException(st, 400, "Invalid role")
        ELSE IF role # "member"
        THEN HTTPException(st, 400,
                           "Self-registration only supports member role")
        ELSE IF UserExists(st, email)
        THEN HTTPException(st, 400, "User already exists")
        ELSE Ok([st EXCEPT !.users =
                    DictPut(@, email,
                            UserRecord(hash_password(payload.password), role))],
                [message |-> "Registration successful", email |-> email,
                 role |-> role])

register_user(st, payload) ==
    LET email == Lower(payload.email)
        role == Lower(payload.role)
    IN  IF role \notin ROLES
        THEN HTTPException(st, 400, "Invalid role")
        ELSE IF role # "member"
        THEN HTTPException(st, 403,
                           "Self-registration only supports member role")
        ELSE IF UserExists(st, email)
        THEN HTTPException(st, 400, "User already exists")
        ELSE Ok([st EXCEPT !.users =
                    DictPut(@, email,
                            UserRecord(hash_password(payload.password), role))],
                [message |-> "Registration successful", email |-> email,
                 role |-> role])

CredentialsMatch_Unhashed(st, email, password) ==
    /\ email \in DOMAIN st.users
    /\ st.users[email].password_hash = password

CredentialsMatch(st, email, password) ==
    /\ email \in DOMAIN st.users
    /\ st.users[email].password_hash = hash_password(password)

login_user_TellsUnknown(st, payload, token) ==
    LET email == Lower(payload.email)
    IN  IF email \notin DOMAIN st.users
        THEN HTTPException(st, 404, "User not found")
        ELSE IF st.users[email].password_hash # hash_password(payload.password)
        THEN HTTPException(st, 401, "Invalid email or password")
        ELSE Ok([st EXCEPT !.active_sessions = DictPut(@, token, email)],
                [message |-> "Login successful", token |-> token,
                 user |-> [email |-> email, role |-> st.users[email].role]])

login_user_OwnerAsGiven(st, payload, token) ==
    LET email == Lower(payload.email)
    IN  IF ~CredentialsMatch(st, email, payload.password)
        THEN HTTPException(st, 401, "Invalid email or password")
        ELSE Ok([st EXCEPT !.active_sessions =
                    DictPut(@, token, payload.email)],
                [message |-> "Login successful", token |-> token,
                 user |-> [email |-> email, role |-> st.users[email].role]])

\* token is the value secrets.token_urlsafe(32) returns in this call
login_user(st, payload, token) ==
    LET email == Lower(payload.email)
    IN  IF ~CredentialsMatch(st, email, payload.password)
        THEN HTTPException(st, 401, "Invalid email or password")
        ELSE Ok([st EXCEPT !.active_sessions = DictPut(@, token, email)],
                [message |-> "Login successful", token |-> token,
                 user |-> [email |-> email, role |-> st.users[email].role]])

SessionsAfterLogout_KeepsToken(sessions, token) == sessions

SessionsAfterLogout_WholeUser(sessions, token) ==
    IF token \in DOMAIN sessions
    THEN [x \in {y \in DOMAIN sessions : sessions[y] # sessions[token]}
            |-> sessions[x]]
    ELSE sessions

SessionsAfterLogout_ClearsAll(sessions, token) == << >>

SessionsAfterLogout(sessions, token) == DictPop(sessions, token)

logout_user_NoDependency(st, authorization) ==
    Ok([st EXCEPT !.active_sessions =
           SessionsAfterLogout(@, HeaderToken(authorization))],
       [message |-> <<"Logged out ", None>>])

logout_user(st, authorization) ==
    LET current_user == get_current_user(st, authorization)
    IN  IF current_user.status # 200 THEN current_user
        ELSE LET token == HeaderToken(authorization)
             IN  Ok([st EXCEPT !.active_sessions =
                         SessionsAfterLogout(@, token)],
                    [message |-> <<"Logged out ", current_user.body.email>>])

get_me(st, authorization) == get_current_user(st, authorization)

SignupRoles == {"member", "admin", "supervisor"}

ActsForOther_Inverted(current_user, target_email) ==
    current_user.role = "member" /\ target_email = current_user.email

ActsForOther(current_user, target_email) ==
    current_user.role = "member" /\ target_email # current_user.email

IsFull_OffByOne(activity) ==
    Len(activity.participants) > activity.max_participants

IsFull(activity) == Len(activity.participants) >= activity.max_participants

AlreadySignedUp_WrongContainer(activity, target_email) ==
    target_email \in DOMAIN activity

AlreadySignedUp(activity, target_email) ==
    InList(target_email, activity.participants)

signup_for_activity_FullFirst(st, authorization, activity_name, email) ==
    LET current_user == require_roles(SignupRoles, st, authorization)
        target_email == Lower(email)
    IN  IF current_user.status # 200 THEN current_user
        ELSE IF activity_name \notin DOMAIN st.activities
        THEN HTTPException(st, 404, "Activity not found")
        ELSE IF ActsForOther(current_user.body, target_email)
        THEN HTTPException(st, 403, "Members can only sign themselves up")
        ELSE IF IsFull(st.activities[activity_name])
        THEN HTTPException(st, 400, "Activity is full")
        ELSE IF AlreadySignedUp(st.activities[activity_name], target_email)
        THEN HTTPException(st, 400, "Student is already signed up")
        ELSE Ok([st EXCEPT !.activities[activity_name].participants =
                    Append(@, target_email)],
                [message |-> <<"Signed up ", target_email, " for ",
                               activity_name>>])

\* keeps the places left in max_participants
signup_for_activity_CountsDown(st, authorization, activity_name, email) ==
    LET current_user == require_roles(SignupRoles, st, authorization)
        target_email == Lower(email)
    IN  IF current_user.status # 200 THEN current_user
        ELSE IF activity_name \notin DOMAIN st.activities
        THEN HTTPException(st, 404, "Activity not found")
        ELSE IF ActsForOther(current_user.body, target_email)
        THEN HTTPException(st, 403, "Members can only sign themselves up")
        ELSE IF AlreadySignedUp(st.activities[activity_name], target_email)
        THEN HTTPException(st, 400, "Student is already signed up")
        ELSE IF IsFull(st.activities[activity_name])
        THEN HTTPException(st, 400, "Activity is full")
        ELSE Ok([st EXCEPT
                    !.activities[activity_name].participants =
                        Append(@, target_email),
                    !.activities[activity_name].max_participants = @ - 1],
                [message |-> <<"Signed up ", target_email, " for ",
                               activity_name>>])

signup_for_activity(st, authorization, activity_name, email) ==
    LET current_user == require_roles(SignupRoles, st, authorization)
        target_email == Lower(email)
    IN  IF current_user.status # 200 THEN current_user
        ELSE IF activity_name \notin DOMAIN st.activities
        THEN HTTPException(st, 404, "Activity not found")
        ELSE IF ActsForOther(current_user.body, target_email)
        THEN HTTPException(st, 403, "Members can only sign themselves up")
        ELSE IF AlreadySignedUp(st.activities[activity_name], target_email)
        THEN HTTPException(st, 400, "Student is already signed up")
        ELSE IF IsFull(st.activities[activity_name])
        THEN HTTPException(st, 400, "Activity is full")
        ELSE Ok([st EXCEPT !.activities[activity_name].participants =
                    Append(@, target_email)],
                [message |-> <<"Signed up ", target_email, " for ",
                               activity_name>>])

unregister_from_activity(st, authorization, activity_name, email) ==
    LET current_user == require_roles(SignupRoles, st, authorization)
        target_email == Lower(email)
    IN  IF current_user.status # 200 THEN current_user
        ELSE IF activity_name \notin DOMAIN st.activities
        THEN HTTPException(st, 404, "Activity not found")
        ELSE IF ActsForOther(current_user.body, target_email)
        THEN HTTPException(st, 403, "Members can only unregister themselves")
        ELSE IF ~InList(target_email,
                        st.activities[activity_name].participants)
        THEN HTTPException(st, 400,
                           "Student is not signed up for this activity")
        ELSE Ok([st EXCEPT !.activities[activity_name].participants =
                    ListRemove(@, target_email)],
                [message |-> <<"Unregistered ", target_email, " from ",
                               activity_name>>])

----------------------------------------------------------------------------
(* Requests the environment sends *)

RegisterRequests ==
    [email : {"new@mergington.edu", "New@Mergington.edu",
              "MEMBER@mergington.edu"},
     password : {"pw1"},
     role : {"member", "Member", "ADMIN", "supervisor", "teacher"}]

LoginRequest(email, password) == [email |-> email, password |-> password]

LoginRequests ==
    {LoginRequest("member@mergington.edu", "member123"),
     LoginRequest("MEMBER@mergington.edu", "member123"),
     LoginRequest("member@mergington.edu", "admin123"),
     LoginRequest("admin@mergington.edu", "admin123"),
     LoginRequest("supervisor@mergington.edu", "supervisor123"),
     LoginRequest("new@mergington.edu", "pw1"),
     LoginRequest("New@Mergington.edu", "pw2"),
     LoginRequest("ghost@mergington.edu", "pw1")}

TokenStrings == {<<t>> : t \in TokenPool \cup {ForgedToken}}

Bearer(token) == <<"Bearer ">> \o token

\* well-formed headers, for every token string
BearerHeaders == {Bearer(t) : t \in TokenStrings}

\* missing, empty-token, padded, wrong-case, two-word and bare headers
OddHeaders ==
    {<<>>, <<"Bearer ">>}
    \cup {<<"Bearer ", " ">> \o t \o <<" ">> : t \in TokenStrings}
    \cup {<<"bearer ">> \o t : t \in TokenStrings}
    \cup {Bearer(t) \o <<" ">> \o t : t \in TokenStrings}
    \cup TokenStrings

Headers == BearerHeaders \cup OddHeaders

ChessEmails ==
    {"member@mergington.edu", "MEMBER@mergington.edu",
     "michael@mergington.edu"}

RosterRequests ==
    ({"Chess Club"} \X ChessEmails)
    \cup {<<"Knitting Club", "member@mergington.edu">>,
          <<"Knitting Club", "michael@mergington.edu">>}
    \cup ({"Math Club"} \X Students)

\* Students are sent to the Math Club in roll order and leave it in reverse
\* order, which keeps the number of orderings of its list small.
InRollOrder(op, activity_name, email) ==
    email \in Students =>
        LET list == activities[activity_name].participants
            i == StudentIndex(email)
        IN  IF op = "signup"
            THEN \A j \in 1..(i - 1) : InList(AllStudents[j], list)
            ELSE \A j \in (i + 1)..NumStudents : ~InList(AllStudents[j], list)

----------------------------------------------------------------------------
(* State machine *)

\* what a worker holds between the checks of a handler and its write: the
\* line it is about to run and the local variables that line uses
Idle ==
    [pc |-> "idle", activity_name |-> "", email |-> "",
     record |-> UserRecord(<<>>, "")]

Pending(pc, activity_name, email, record) ==
    [pc |-> pc, activity_name |-> activity_name, email |-> email,
     record |-> record]

Init ==
    /\ users = SeedUsers
    /\ active_sessions = << >>
    /\ activities = SeedActivities
    /\ issued = {}
    /\ revoked = {}
    /\ threads = [w \in Workers |-> Idle]

\* a request served from its first line to its response, by one worker
Respond(result) ==
    /\ users' = result.store.users
    /\ active_sessions' = result.store.active_sessions
    /\ activities' = result.store.activities
    /\ UNCHANGED threads

Root ==
    /\ Respond(root(Current))
    /\ UNCHANGED <<issued, revoked>>

GetActivities ==
    /\ Respond(get_activities(Current))
    /\ UNCHANGED <<issued, revoked>>

Register(payload) ==
    /\ Respond(register_user(Current, payload))
    /\ UNCHANGED <<issued, revoked>>

\* a fresh token is drawn only when the credentials match; the bound on the
\* pool caps the number of successful logins
Login(payload, token) ==
    LET result == login_user(Current, payload, token)
    IN  /\ result.status = 200 => token \notin issued
        /\ Respond(result)
        /\ issued' = IF result.status = 200 THEN issued \cup {token}
                     ELSE issued
        /\ UNCHANGED revoked

Logout(authorization) ==
    LET result == logout_user(Current, authorization)
    IN  /\ Respond(result)
        /\ revoked' = IF result.status = 200
                      THEN revoked \cup {HeaderToken(authorization)}
                      ELSE revoked
        /\ UNCHANGED issued

GetMe(authorization) ==
    /\ Respond(get_me(Current, authorization))
    /\ UNCHANGED <<issued, revoked>>

Signup(authorization, activity_name, email) ==
    /\ InRollOrder("signup", activity_name, email)
    /\ Respond(signup_for_activity(Current, authorization, activity_name,
                                   email))
    /\ UNCHANGED <<issued, revoked>>

Unregister(authorization, activity_name, email) ==
    /\ InRollOrder("unregister", activity_name, email)
    /\ Respond(unregister_from_activity(Current, authorization,
                                        activity_name, email))
    /\ UNCHANGED <<issued, revoked>>

\* the never-issued tokens are drawn in the order of AllTokens: which of
\* them a login draws makes no difference to any handler
TokenDraw ==
    {AllTokens[i] : i \in {j \in 1..MaxTokens :
        /\ <<AllTokens[j]>> \notin issued
        /\ \A k \in 1..(j - 1) : <<AllTokens[k]>> \in issued}}

\* admin and supervisor log in while no session of either is active, which
\* keeps the number of session tables small; no handler relates two sessions
OneStaffAtATime(payload) ==
    LET email == Lower(payload.email)
        IsStaffUser(e) ==
            e \in DOMAIN users /\ users[e].role \in {"admin", "supervisor"}
    IN  IsStaffUser(email) =>
            \A t \in DOMAIN active_sessions : ~IsStaffUser(active_sessions[t])

Next ==
    \/ Root
    \/ GetActivities
    \/ \E payload \in RegisterRequests : Register(payload)
    \/ \E payload \in LoginRequests, t \in TokenDraw :
          OneStaffAtATime(payload) /\ Login(payload, <<t>>)
    \/ \E authorization \in Headers : Logout(authorization)
    \/ \E authorization \in Headers : GetMe(authorization)
    \/ \E authorization \in BearerHeaders \cup {<<>>}, r \in RosterRequests :
          Signup(authorization, r[1], r[2])
    \/ \E authorization \in BearerHeaders \cup {<<>>}, r \in RosterRequests :
          Unregister(authorization, r[1], r[2])

Spec == Init /\ [][Next]_vars

RegisteredEmails ==
    {"member@mergington.edu", "admin@mergington.edu",
     "supervisor@mergington.edu", "new@mergington.edu"}

TypeOK ==
    /\ DOMAIN users \subseteq RegisteredEmails
    /\ DOMAIN active_sessions \subseteq issued
    /\ DOMAIN activities = DOMAIN SeedActivities

----------------------------------------------------------------------------
(* Vocabulary of the properties *)

\* the requests the properties range over: those of Next without the roll
\* order (for the first two and the last two students), and a few more
AnyRosterRequests ==
    ({"Chess Club"} \X ChessEmails)
    \cup {<<"Knitting Club", "member@mergington.edu">>,
          <<"Knitting Club", "michael@mergington.edu">>}
    \cup ({"Math Club"} \X {AllStudents[1], AllStudents[2],
                             AllStudents[NumStudents - 1],
                             AllStudents[NumStudents]})
    \cup {<<"Math Club", "member@mergington.edu">>,
          <<"Math Club", "MEMBER@mergington.edu">>,
          <<"Math Club", "james@mergington.edu">>,
          <<"Chess Club", "Michael@mergington.edu">>,
          <<"Chess Club", "new@mergington.edu">>,
          <<"Chess Club", "student01@mergington.edu">>}

AnyRegisterRequests ==
    [email : {"new@mergington.edu", "New@Mergington.edu",
              "MEMBER@mergington.edu", "admin@mergington.edu",
              "other@mergington.edu"},
     password : {"pw1", "pw2", "member123"},
     role : {"member", "Member", "admin", "ADMIN", "supervisor", "teacher"}]

CallerHeaders == BearerHeaders \cup {<<>>}

Failed(result, status_code, detail) ==
    /\ result.status = status_code
    /\ result.body.detail = detail

Participants(st, activity_name) == st.activities[activity_name].participants

NoDuplicates(list) ==
    \A i, j \in 1..Len(list) : list[i] = list[j] => i = j

\* the identity a header resolves to in the current store, if any
Identity(authorization) == get_current_user(Current, authorization)

----------------------------------------------------------------------------
(* C1 - capacity *)

\* a signup that passes every check before the capacity check, on a full list
WouldExceed(authorization, activity_name, email) ==
    /\ Identity(authorization).status = 200
    /\ activity_name \in DOMAIN activities
    /\ ~(/\ Identity(authorization).body.role = "member"
         /\ Lower(email) # Identity(authorization).body.email)
    /\ ~InList(Lower(email), Participants(Current, activity_name))
    /\ Len(Participants(Current, activity_name))
          = activities[activity_name].max_participants

\* C1: every activity has at most max_participants participants, and a
\* signup that would exceed the capacity fails with 400 "Activity is full"
\* and leaves everything as it was.
C1_CapacityInvariant ==
    /\ \A a \in DOMAIN activities :
          Len(activities[a].participants) <= activities[a].max_participants
    /\ \A h \in CallerHeaders, r \in AnyRosterRequests :
          WouldExceed(h, r[1], r[2]) =>
              LET result == signup_for_activity(Current, h, r[1], r[2])
              IN  /\ Failed(result, 400, "Activity is full")
                  /\ result.store = Current

\* the Math Club is full and somebody asks for one more place
C1_Witness ==
    /\ Len(activities["Math Club"].participants) = 10
    /\ \E h \in CallerHeaders, r \in AnyRosterRequests :
          WouldExceed(h, r[1], r[2])

----------------------------------------------------------------------------
(* C2 - a member acts only for themself *)

IsMember(authorization) ==
    /\ Identity(authorization).status = 200
    /\ Identity(authorization).body.role = "member"

IsStaff(authorization) ==
    /\ Identity(authorization).status = 200
    /\ Identity(authorization).body.role \in {"admin", "supervisor"}

ForOther(authorization, email) ==
    Lower(email) # Identity(authorization).body.email

\* st differs from the current store at most by one signup or one
\* unregistration of email
OnlyTouches(st, email) ==
    /\ st.users = users
    /\ st.active_sessions = active_sessions
    /\ DOMAIN st.activities = DOMAIN activities
    /\ \A a \in DOMAIN activities :
          \/ st.activities[a] = activities[a]
          \/ st.activities[a] =
                [activities[a] EXCEPT !.participants = Append(@, email)]
          \/ /\ InList(email, activities[a].participants)
             /\ st.activities[a] =
                   [activities[a] EXCEPT !.participants = ListRemove(@, email)]

\* over any sequence of requests, what a member's request changes is the
\* member's own email
C2_MemberTouchesOwnEmail ==
    \A h \in CallerHeaders :
        IsMember(h) => \A r \in AnyRosterRequests :
            /\ OnlyTouches(signup_for_activity(Current, h, r[1], r[2]).store,
                           Identity(h).body.email)
            /\ OnlyTouches(
                   unregister_from_activity(Current, h, r[1], r[2]).store,
                   Identity(h).body.email)

\* admin and supervisor sign up and unregister other people
C2_StaffActsForAnyone ==
    \A h \in CallerHeaders :
        IsStaff(h) => \A r \in AnyRosterRequests :
        (ForOther(h, r[2]) /\ r[1] \in DOMAIN activities) =>
            LET list == Participants(Current, r[1])
                up == signup_for_activity(Current, h, r[1], r[2])
                down == unregister_from_activity(Current, h, r[1], r[2])
            IN  /\ up.status # 403
                /\ down.status # 403
                /\ (/\ ~InList(Lower(r[2]), list)
                    /\ Len(list) < activities[r[1]].max_participants)
                      => /\ up.status = 200
                         /\ Participants(up.store, r[1])
                               = Append(list, Lower(r[2]))
                /\ InList(Lower(r[2]), list)
                      => /\ down.status = 200
                         /\ ~InList(Lower(r[2]), Participants(down.store, r[1]))

\* the claim as stated: 403 for every request of a member for somebody else
C2_Original ==
    /\ \A h \in CallerHeaders :
          IsMember(h) => \A r \in AnyRosterRequests :
          ForOther(h, r[2]) =>
              LET up == signup_for_activity(Current, h, r[1], r[2])
                  down == unregister_from_activity(Current, h, r[1], r[2])
              IN  /\ up.status = 403
                  /\ down.status = 403
                  /\ up.store = Current
                  /\ down.store = Current
    /\ C2_MemberTouchesOwnEmail
    /\ C2_StaffActsForAnyone

\* C2 (amended): a signup or unregister request of a member for another
\* email fails with 403 when the activity exists and with 404 when it does
\* not, and changes nothing; a member's requests only add or remove the
\* member's own email; admin and supervisor are not restricted.
C2_MembersActForSelf ==
    /\ \A h \in CallerHeaders :
          IsMember(h) => \A r \in AnyRosterRequests :
          ForOther(h, r[2]) =>
              LET up == signup_for_activity(Current, h, r[1], r[2])
                  down == unregister_from_activity(Current, h, r[1], r[2])
                  code == IF r[1] \in DOMAIN activities THEN 403 ELSE 404
              IN  /\ up.status = code
                  /\ down.status = code
                  /\ up.store = Current
                  /\ down.store = Current
    /\ C2_MemberTouchesOwnEmail
    /\ C2_StaffActsForAnyone

\* a member is logged in and has signed up, and staff has signed up a student
C2_Witness ==
    /\ \E h \in CallerHeaders : IsMember(h)
    /\ InList("member@mergington.edu", activities["Chess Club"].participants)
    /\ InList("student01@mergington.edu",
              activities["Math Club"].participants)

----------------------------------------------------------------------------
(* C3 - dead tokens *)

SampleRosterRequests ==
    {<<"Chess Club", "member@mergington.edu">>,
     <<"Chess Club", "michael@mergington.edu">>,
     <<"Math Club", "student01@mergington.edu">>,
     <<"Knitting Club", "member@mergington.edu">>}

Rejected(result) == result.status = 401 /\ result.store = Current

\* C3: a header that presents a token no login has returned, or a token a
\* logout has revoked, gets 401 from logout, whoami, signup and unregister,
\* and changes nothing.
C3_DeadTokensRejected ==
    \A t \in TokenStrings :
        (t \notin issued \/ t \in revoked) =>
            \A h \in Headers :
                HeaderToken(h) = t =>
                    /\ Rejected(logout_user(Current, h))
                    /\ Rejected(get_me(Current, h))
                    /\ \A r \in SampleRosterRequests :
                          /\ Rejected(signup_for_activity(Current, h, r[1],
                                                          r[2]))
                          /\ Rejected(unregister_from_activity(Current, h,
                                                               r[1], r[2]))

\* one token was revoked while another one is still active
C3_Witness == revoked # {} /\ DOMAIN active_sessions # {}

----------------------------------------------------------------------------
(* C4 - registering an existing email *)

\* the claim as stated: AlreadyExists whatever the role
C4_Original ==
    \A p \in AnyRegisterRequests :
        Lower(p.email) \in DOMAIN users =>
            LET result == register_user(Current, p)
            IN  /\ Failed(result, 400, "User already exists")
                /\ result.store = Current

\* C4 (amended): a register call for an email that, lower-cased, is already
\* a user fails whatever the role and password, and leaves the stored record
\* as it was: with 400 "User already exists" when the role is member, with
\* 400 "Invalid role" when the role is none of the three, and with 403 when
\* it is admin or supervisor.
C4_RegisterRejectsExisting ==
    \A p \in AnyRegisterRequests :
        Lower(p.email) \in DOMAIN users =>
            LET result == register_user(Current, p)
                role == Lower(p.role)
            IN  /\ result.store = Current
                /\ role = "member" =>
                      Failed(result, 400, "User already exists")
                /\ role \in {"admin", "supervisor"} =>
                      Failed(result, 403,
                             "Self-registration only supports member role")
                /\ role \notin {"member", "admin", "supervisor"} =>
                      Failed(result, 400, "Invalid role")

\* a registration has succeeded, so that later ones meet its record
C4_Witness == "new@mergington.edu" \in DOMAIN users

----------------------------------------------------------------------------
(* C5 - login after registration *)

\* C5: for an email that is not registered, register(email, password,
\* "member") succeeds, and the login with the same email and password that
\* follows succeeds and returns a token that resolves to the lower-cased
\* email with role member.
C5_RegisterThenLogin ==
    \A p \in AnyRegisterRequests :
        (p.role = "member" /\ Lower(p.email) \notin DOMAIN users) =>
            LET registered == register_user(Current, p)
                user == [email |-> Lower(p.email), role |-> "member"]
            IN  /\ registered.status = 200
                /\ \A t \in TokenStrings \ issued :
                      LET login == login_user(registered.store,
                                       LoginRequest(p.email, p.password), t)
                          me == get_current_user(login.store, Bearer(t))
                      IN  /\ login.status = 200
                          /\ login.body.token = t
                          /\ login.body.user = user
                          /\ me.status = 200
                          /\ me.body = user

\* the newly registered user holds a session
C5_Witness ==
    \E t \in DOMAIN active_sessions :
        active_sessions[t] = "new@mergington.edu"

----------------------------------------------------------------------------
(* C6 - no partial effects *)

OneUserAdded(st) ==
    /\ st.active_sessions = active_sessions
    /\ st.activities = activities
    /\ Cardinality(DOMAIN st.users) = Cardinality(DOMAIN users) + 1
    /\ \A e \in DOMAIN users : e \in DOMAIN st.users /\ st.users[e] = users[e]

OneSessionAdded(st) ==
    /\ st.users = users
    /\ st.activities = activities
    /\ Cardinality(DOMAIN st.active_sessions)
          = Cardinality(DOMAIN active_sessions) + 1
    /\ \A t \in DOMAIN active_sessions :
          /\ t \in DOMAIN st.active_sessions
          /\ st.active_sessions[t] = active_sessions[t]

OneSessionRemoved(st) ==
    /\ st.users = users
    /\ st.activities = activities
    /\ \E t \in DOMAIN active_sessions :
          st.active_sessions = DictPop(active_sessions, t)

OneParticipantAppended(st) ==
    /\ st.users = users
    /\ st.active_sessions = active_sessions
    /\ DOMAIN st.activities = DOMAIN activities
    /\ \E a \in DOMAIN activities :
          /\ \A b \in DOMAIN activities \ {a} :
                st.activities[b] = activities[b]
          /\ \E e \in {st.activities[a].participants[i] :
                           i \in 1..Len(st.activities[a].participants)} :
                st.activities[a] =
                    [activities[a] EXCEPT !.participants = Append(@, e)]

OneParticipantRemoved(st) ==
    /\ st.users = users
    /\ st.active_sessions = active_sessions
    /\ DOMAIN st.activities = DOMAIN activities
    /\ \E a \in DOMAIN activities :
          /\ \A b \in DOMAIN activities \ {a} :
                st.activities[b] = activities[b]
          /\ \E i \in 1..Len(activities[a].participants) :
                st.activities[a] =
                    [activities[a] EXCEPT !.participants =
                        SubSeq(@, 1, i - 1) \o SubSeq(@, i + 1, Len(@))]

IsError(result) == result.status \in {400, 401, 403, 404}

\* C6: a request that ends in 400, 401, 403 or 404 leaves users,
\* active_sessions and activities as they were, every other request ends in
\* 200 (307 for the redirect), and a successful request makes one mutation of
\* the kind of its endpoint (none for the reading endpoints).
C6_NoPartialEffects ==
    /\ root(Current).store = Current
    /\ get_activities(Current).store = Current
    /\ \A p \in AnyRegisterRequests :
          LET result == register_user(Current, p)
          IN  IF IsError(result) THEN result.store = Current
              ELSE result.status = 200 /\ OneUserAdded(result.store)
    /\ \A p \in LoginRequests, t \in TokenStrings \ issued :
          LET result == login_user(Current, p, t)
          IN  IF IsError(result) THEN result.store = Current
              ELSE result.status = 200 /\ OneSessionAdded(result.store)
    /\ \A h \in Headers :
          /\ LET result == logout_user(Current, h)
             IN  IF IsError(result) THEN result.store = Current
                 ELSE result.status = 200 /\ OneSessionRemoved(result.store)
          /\ LET result == get_me(Current, h)
             IN  (IsError(result) \/ result.status = 200)
                 /\ result.store = Current
    /\ \A h \in CallerHeaders, r \in AnyRosterRequests :
          /\ LET result == signup_for_activity(Current, h, r[1], r[2])
             IN  IF IsError(result) THEN result.store = Current
                 ELSE /\ result.status = 200
                      /\ OneParticipantAppended(result.store)
          /\ LET result == unregister_from_activity(Current, h, r[1], r[2])
             IN  IF IsError(result) THEN result.store = Current
                 ELSE /\ result.status = 200
                      /\ OneParticipantRemoved(result.store)

\* after a registration, a logout and a signup, a request can still fail
C6_Witness ==
    /\ "new@mergington.edu" \in DOMAIN users
    /\ revoked # {}
    /\ InList("member@mergington.edu", activities["Chess Club"].participants)
    /\ \E p \in AnyRegisterRequests : IsError(register_user(Current, p))
    /\ \E h \in CallerHeaders, r \in AnyRosterRequests :
          signup_for_activity(Current, h, r[1], r[2]).status = 400

----------------------------------------------------------------------------
(* C7 - signup, then unregister *)

\* C7: when a signup succeeds, the unregister of the same activity and email
\* that follows it succeeds for the same caller, and for whichever caller it
\* succeeds it gives back the activities exactly as they were before the
\* signup: the same list in the same order, every other activity untouched.
C7_RoundTrip ==
    \A h \in CallerHeaders, r \in AnyRosterRequests :
        LET up == signup_for_activity(Current, h, r[1], r[2])
        IN  up.status = 200 =>
                /\ up.store.activities # activities
                /\ unregister_from_activity(up.store, h, r[1], r[2]).status
                      = 200
                /\ \A h2 \in CallerHeaders :
                      LET down == unregister_from_activity(up.store, h2,
                                                           r[1], r[2])
                      IN  down.status = 200 =>
                              down.store.activities = activities

\* lists have been reordered by earlier requests and a signup can succeed
C7_Witness ==
    /\ activities["Chess Club"].participants =
          <<"daniel@mergington.edu", "michael@mergington.edu",
            "member@mergington.edu">>
    /\ \E h \in CallerHeaders, r \in AnyRosterRequests :
          signup_for_activity(Current, h, r[1], r[2]).status = 200

----------------------------------------------------------------------------
(* C8 - no duplicate participants *)

\* C8: no participant list holds an email twice, and a signup of an email
\* that, lower-cased, is already in the list fails with 400 "Student is
\* already signed up" and leaves the list as it was.
C8_NoDuplicateParticipants ==
    /\ \A a \in DOMAIN activities : NoDuplicates(activities[a].participants)
    /\ \A h \in CallerHeaders, r \in AnyRosterRequests :
          (/\ Identity(h).status = 200
           /\ r[1] \in DOMAIN activities
           /\ ~(IsMember(h) /\ ForOther(h, r[2]))
           /\ InList(Lower(r[2]), Participants(Current, r[1])))
          => LET result == signup_for_activity(Current, h, r[1], r[2])
             IN  /\ Failed(result, 400, "Student is already signed up")
                 /\ result.store = Current

\* the member is signed up and can send the same signup again
C8_Witness ==
    /\ InList("member@mergington.edu", activities["Chess Club"].participants)
    /\ \E h \in CallerHeaders :
          IsMember(h) /\ ~ForOther(h, "MEMBER@mergington.edu")

----------------------------------------------------------------------------
(* C9 - sessions do not expire *)

NextStore == Store(users', active_sessions', activities')

\* C9: in every step, a token that resolves keeps resolving to the same
\* email and role, unless the step is a successful logout that presents it.
C9_SessionsDoNotExpire ==
    [][\A t \in DOMAIN active_sessions :
          LET before == get_current_user(Current, Bearer(t))
              after == get_current_user(NextStore, Bearer(t))
          IN  before.status = 200 =>
                  \/ t \in revoked' \ revoked
                  \/ after.status = 200 /\ after.body = before.body]_vars

\* a token is still active after a logout of another token, a registration
\* and a signup
C9_Witness ==
    /\ DOMAIN active_sessions # {}
    /\ revoked # {}
    /\ "new@mergington.edu" \in DOMAIN users
    /\ activities # SeedActivities

----------------------------------------------------------------------------
(* C10 - logout twice *)

\* the claim as stated, in its particular case: the second logout with the
\* same header succeeds like the first
C10_Original ==
    \A h \in Headers :
        LET first == logout_user(Current, h)
            second == logout_user(first.store, h)
        IN  first.status = 200 =>
                second.status = 200 /\ second.store = first.store

\* C10 (amended): a logout that presents an unknown or an already revoked
\* token is rejected with 401 and leaves the session set unchanged; so the
\* second logout with the same token fails with 401 "Invalid or expired
\* session token" where the first succeeded. Only the removal itself is a
\* no-op on a token that is not in the session set.
C10_SecondLogoutRejected ==
    /\ \A h \in Headers :
          LET first == logout_user(Current, h)
              second == logout_user(first.store, h)
          IN  first.status = 200 =>
                  /\ HeaderToken(h) \notin DOMAIN first.store.active_sessions
                  /\ Failed(second, 401, "Invalid or expired session token")
                  /\ second.store = first.store
    /\ \A t \in TokenStrings :
          t \notin DOMAIN active_sessions =>
              /\ Failed(logout_user(Current, Bearer(t)), 401,
                        "Invalid or expired session token")
              /\ logout_user(Current, Bearer(t)).store = Current
              /\ SessionsAfterLogout(active_sessions, t) = active_sessions

\* one logout has succeeded and another one can
C10_Witness ==
    /\ revoked # {}
    /\ \E h \in Headers : logout_user(Current, h).status = 200

----------------------------------------------------------------------------
(* C11 - login fails uniformly *)

AnyLoginRequests ==
    [email : {"member@mergington.edu", "MEMBER@mergington.edu",
              "admin@mergington.edu", "new@mergington.edu",
              "New@Mergington.edu", "ghost@mergington.edu"},
     password : {"member123", "admin123", "pw1", "pw2", ""}]

UnknownEmail(p) == Lower(p.email) \notin DOMAIN users

WrongPassword(p) ==
    /\ Lower(p.email) \in DOMAIN users
    /\ users[Lower(p.email)].password_hash # <<"sha256", p.password>>

\* C11: a login for an unknown email and a login for a known email with a
\* wrong password both end in 401 "Invalid email or password", with the same
\* response, and neither adds a session nor changes anything else.
C11_LoginFailsUniformly ==
    \A t \in TokenStrings \ issued :
        LET unknown == login_user(Current,
                           LoginRequest("ghost@mergington.edu", "pw1"), t)
        IN  /\ Failed(unknown, 401, "Invalid email or password")
            /\ unknown.store = Current
            /\ \A p \in AnyLoginRequests :
                  (UnknownEmail(p) \/ WrongPassword(p)) =>
                      login_user(Current, p, t) = unknown

\* logins have succeeded, and both kinds of failing login can be sent
C11_Witness ==
    /\ DOMAIN active_sessions # {}
    /\ "new@mergington.edu" \in DOMAIN users
    /\ \E p \in AnyLoginRequests : UnknownEmail(p)
    /\ \E q \in AnyLoginRequests :
          WrongPassword(q) /\ Lower(q.email) = "new@mergington.edu"

----------------------------------------------------------------------------
(* C12 - no privilege escalation *)

StaffEmails(u) == {e \in DOMAIN u : u[e].role \in {"admin", "supervisor"}}

\* every user record of the current store is in st, as it is
KeepsUsers(st) ==
    \A e \in DOMAIN users : e \in DOMAIN st.users /\ st.users[e] = users[e]

\* C12: register succeeds only for the role member (in any letter case) and
\* stores the role member; the users with role admin or supervisor are the
\* seeded ones; and no request of any endpoint changes the role or the
\* digest of an existing user or deletes a user.
C12_NoPrivilegeEscalation ==
    /\ StaffEmails(users) = StaffEmails(SeedUsers)
    /\ \A e \in DOMAIN SeedUsers : e \in DOMAIN users /\ users[e] = SeedUsers[e]
    /\ \A p \in AnyRegisterRequests :
          LET result == register_user(Current, p)
          IN  /\ KeepsUsers(result.store)
              /\ result.status = 200 =>
                    /\ p.role \in {"member", "Member"}
                    /\ result.store.users[result.body.email].role = "member"
                    /\ StaffEmails(result.store.users) = StaffEmails(SeedUsers)
    /\ \A p \in LoginRequests, t \in TokenStrings \ issued :
          login_user(Current, p, t).store.users = users
    /\ \A h \in Headers :
          /\ logout_user(Current, h).store.users = users
          /\ get_me(Current, h).store.users = users
    /\ \A h \in CallerHeaders, r \in SampleRosterRequests :
          /\ signup_for_activity(Current, h, r[1], r[2]).store.users = users
          /\ unregister_from_activity(Current, h, r[1], r[2]).store.users
                = users

\* a registration has succeeded and staff is logged in
C12_Witness ==
    /\ "new@mergington.edu" \in DOMAIN users
    /\ users["new@mergington.edu"].role = "member"
    /\ \E h \in CallerHeaders : IsStaff(h)

----------------------------------------------------------------------------
(* C13 - status of a failed registration *)

\* the claim as stated: every failure of register has status 400
C13_Original ==
    \A p \in AnyRegisterRequests :
        LET result == register_user(Current, p)
        IN  result.status # 200 => result.status = 400

\* C13 (amended): a register request with a role outside member, admin,
\* supervisor fails with 400, one for an existing email and the role member
\* fails with 400, and one with the role admin or supervisor fails with 403;
\* every other register request succeeds.
C13_RegisterFailureCodes ==
    \A p \in AnyRegisterRequests :
        LET result == register_user(Current, p)
        IN  IF p.role \in {"teacher"}
            THEN Failed(result, 400, "Invalid role")
            ELSE IF p.role \in {"admin", "ADMIN", "supervisor"}
            THEN Failed(result, 403,
                        "Self-registration only supports member role")
            ELSE IF \E e \in DOMAIN users :
                        e = p.email \/ <<p.email, e>> \in
                            {<<"New@Mergington.edu", "new@mergington.edu">>,
                             <<"MEMBER@mergington.edu",
                               "member@mergington.edu">>}
            THEN Failed(result, 400, "User already exists")
            ELSE result.status = 200

\* a registration has succeeded before anybody logged in
C13_Witness ==
    /\ "new@mergington.edu" \in DOMAIN users
    /\ issued = {}

----------------------------------------------------------------------------
(* C14 - requests served by several worker threads *)

StoreUnchanged == UNCHANGED <<users, active_sessions, activities>>

\* lines 203-230: the dependencies and every check of signup_for_activity
SignupChecks(w, authorization, activity_name, email) ==
    LET result == signup_for_activity(Current, authorization, activity_name,
                                      email)
    IN  /\ threads[w].pc = "idle"
        /\ threads' = [threads EXCEPT ![w] =
              IF result.status = 200
              THEN Pending("append", activity_name, Lower(email),
                           Idle.record)
              ELSE Idle]
        /\ StoreUnchanged
        /\ UNCHANGED <<issued, revoked>>

\* line 233: activity["participants"].append(target_email)
SignupAppends(w) ==
    /\ threads[w].pc = "append"
    /\ activities' =
          [activities EXCEPT ![threads[w].activity_name].participants =
              Append(@, threads[w].email)]
    /\ threads' = [threads EXCEPT ![w] = Idle]
    /\ UNCHANGED <<users, active_sessions, issued, revoked>>

\* lines 237-261: the dependencies and every check of unregister_from_activity
UnregisterChecks(w, authorization, activity_name, email) ==
    LET result == unregister_from_activity(Current, authorization,
                                           activity_name, email)
    IN  /\ threads[w].pc = "idle"
        /\ threads' = [threads EXCEPT ![w] =
              IF result.status = 200
              THEN Pending("remove", activity_name, Lower(email),
                           Idle.record)
              ELSE Idle]
        /\ StoreUnchanged
        /\ UNCHANGED <<issued, revoked>>

\* line 264: activity["participants"].remove(target_email), which raises
\* ValueError and changes nothing when the email is no longer in the list
UnregisterRemoves(w) ==
    /\ threads[w].pc = "remove"
    /\ activities' =
          [activities EXCEPT ![threads[w].activity_name].participants =
              IF InList(threads[w].email, @)
              THEN ListRemove(@, threads[w].email) ELSE @]
    /\ threads' = [threads EXCEPT ![w] = Idle]
    /\ UNCHANGED <<users, active_sessions, issued, revoked>>

\* lines 151-162: the checks of register_user
RegisterChecks(w, payload) ==
    LET result == register_user(Current, payload)
    IN  /\ threads[w].pc = "idle"
        /\ threads' = [threads EXCEPT ![w] =
              IF result.status = 200
              THEN Pending("store", "", Lower(payload.email),
                           UserRecord(hash_password(payload.password),
                                      Lower(payload.role)))
              ELSE Idle]
        /\ StoreUnchanged
        /\ UNCHANGED <<issued, revoked>>

\* lines 164-167: users[email] = {...}
RegisterStores(w) ==
    /\ threads[w].pc = "store"
    /\ users' = DictPut(users, threads[w].email, threads[w].record)
    /\ threads' = [threads EXCEPT ![w] = Idle]
    /\ UNCHANGED <<active_sessions, activities, issued, revoked>>

\* a student's signup is sent when the students before them are in the list
\* or about to be appended to it, and while another signup is under way only
\* when the Math Club has one free slot
SentInRollOrder(email) ==
    /\ \A j \in 1..(StudentIndex(email) - 1) :
          \/ InList(AllStudents[j], activities["Math Club"].participants)
          \/ \E w \in Workers :
                threads[w].pc = "append" /\ threads[w].email = AllStudents[j]
    /\ \/ \A w \in Workers : threads[w].pc # "append"
       \/ Len(activities["Math Club"].participants) + 1
             = activities["Math Club"].max_participants

ThreadRegisterRequests ==
    [email : {"new@mergington.edu"}, password : {"pw1", "pw2"},
     role : {"member"}]

\* login_user reads users and then writes active_sessions; users only grows,
\* so its two halves are taken in one step
NextThreads ==
    \/ Login(LoginRequest("admin@mergington.edu", "admin123"),
             <<AllTokens[1]>>)
    \/ \E w \in Workers, authorization \in BearerHeaders, e \in Students :
          /\ SentInRollOrder(e)
          /\ SignupChecks(w, authorization, "Math Club", e)
    \/ \E w \in Workers, authorization \in BearerHeaders :
          SignupChecks(w, authorization, "Chess Club", "new@mergington.edu")
    \/ \E w \in Workers : SignupAppends(w)
    \/ \E w \in Workers, authorization \in BearerHeaders :
          UnregisterChecks(w, authorization, "Chess Club",
                           "michael@mergington.edu")
    \/ \E w \in Workers : UnregisterRemoves(w)
    \/ \E w \in Workers, payload \in ThreadRegisterRequests :
          RegisterChecks(w, payload)
    \/ \E w \in Workers : RegisterStores(w)

SpecThreads == Init /\ [][NextThreads]_vars

\* C14: requests are handled to completion without interleaving, so two
\* concurrent signups on an activity with one free slot never both succeed
\* (no list grows beyond max_participants) and two concurrent signups of the
\* same email never both append it (no list holds an email twice).
C14_Original ==
    \A a \in DOMAIN activities :
        /\ Len(activities[a].participants) <= activities[a].max_participants
        /\ NoDuplicates(activities[a].participants)

----------------------------------------------------------------------------
(* C15 - order of the checks *)

Outcome(status_code, detail) == [status |-> status_code, detail |-> detail]

OutcomeOf(result) ==
    IF result.status = 200 THEN Outcome(200, "")
    ELSE Outcome(result.status, result.body.detail)

\* the first failing check, in the order the claim gives; own_error is the
\* 403 of the endpoint, listed is the 400 of the endpoint and its condition
FirstFailingCheck(authorization, activity_name, email, own_error, listed,
                  is_signup) ==
    LET me == Identity(authorization)
        list == activities[activity_name].participants
    IN  IF me.status # 200 THEN OutcomeOf(me)
        ELSE IF me.body.role \notin {"member", "admin", "supervisor"}
        THEN Outcome(403, "You do not have permission for this action")
        ELSE IF activity_name \notin DOMAIN activities
        THEN Outcome(404, "Activity not found")
        ELSE IF me.body.role = "member" /\ ForOther(authorization, email)
        THEN Outcome(403, own_error)
        ELSE IF InList(Lower(email), list) = is_signup
        THEN Outcome(400, listed)
        ELSE IF /\ is_signup
                /\ Len(list) >= activities[activity_name].max_participants
        THEN Outcome(400, "Activity is full")
        ELSE Outcome(200, "")

\* C15: signup and unregister answer with the first failing check in the
\* order authentication (401), role allow-list (403), activity exists (404),
\* member acts for themself (403), already or not signed up (400) and, for
\* signup, full (400); so an unknown activity gives 404 to every
\* authenticated caller, a missing or dead token gives 401 even for an
\* unknown activity, and an email that is already in a full list gives
\* "Student is already signed up".
C15_CheckOrder ==
    \A h \in CallerHeaders \cup {<<"Bearer ">>}, r \in AnyRosterRequests :
        LET up == signup_for_activity(Current, h, r[1], r[2])
            down == unregister_from_activity(Current, h, r[1], r[2])
            me == Identity(h)
        IN  /\ OutcomeOf(up)
                  = FirstFailingCheck(h, r[1], r[2],
                        "Members can only sign themselves up",
                        "Student is already signed up", TRUE)
            /\ OutcomeOf(down)
                  = FirstFailingCheck(h, r[1], r[2],
                        "Members can only unregister themselves",
                        "Student is not signed up for this activity", FALSE)
            /\ (me.status = 200 /\ r[1] \notin DOMAIN activities) =>
                  up.status = 404
            /\ me.status # 200 => down.status = 401

\* staff is logged in, the Math Club is full and one of its students can be
\* signed up again
C15_Witness ==
    /\ \E h \in CallerHeaders : IsStaff(h)
    /\ Len(activities["Math Club"].participants)
          = activities["Math Club"].max_participants
    /\ InList("student01@mergington.edu",
              activities["Math Club"].participants)

----------------------------------------------------------------------------
(* C16 - letter case of emails *)

\* pairs of emails that differ in letter case only
CaseVariants ==
    {<<"member@mergington.edu", "MEMBER@mergington.edu">>,
     <<"new@mergington.edu", "New@Mergington.edu">>,
     <<"michael@mergington.edu", "Michael@mergington.edu">>}

\* C16: two emails that differ only in letter case are the same identity:
\* register, login, signup and unregister give the same result and the same
\* store for both. So register of a variant of an existing email fails with
\* "User already exists", login with a variant succeeds and whoami returns
\* the lower-case email, a member signs up and unregisters themself under
\* any casing, and signup of a variant of a participant fails with "Student
\* is already signed up".
C16_EmailCaseInsensitive ==
    \A v \in CaseVariants :
        /\ \A pw \in {"pw1", "member123"}, role \in {"member", "admin"} :
              LET lower == register_user(Current,
                      [email |-> v[1], password |-> pw, role |-> role])
                  upper == register_user(Current,
                      [email |-> v[2], password |-> pw, role |-> role])
              IN  /\ lower = upper
                  /\ (v[1] \in DOMAIN users /\ role = "member") =>
                        Failed(upper, 400, "User already exists")
        /\ \A pw \in {"pw1", "member123"}, t \in TokenStrings \ issued :
              LET lower == login_user(Current, LoginRequest(v[1], pw), t)
                  upper == login_user(Current, LoginRequest(v[2], pw), t)
              IN  /\ lower = upper
                  /\ lower.status = 200 =>
                        get_me(upper.store, Bearer(t)).body.email = v[1]
        /\ \A h \in CallerHeaders, a \in {"Chess Club", "Math Club"} :
              LET up == signup_for_activity(Current, h, a, v[2])
                  down == unregister_from_activity(Current, h, a, v[2])
                  list == activities[a].participants
              IN  /\ up = signup_for_activity(Current, h, a, v[1])
                  /\ down = unregister_from_activity(Current, h, a, v[1])
                  /\ (IsMember(h) /\ Identity(h).body.email = v[1]) =>
                        /\ up.status \in {200, 400}
                        /\ down.status \in {200, 400}
                        /\ up.status = 200 =>
                              Participants(up.store, a) = Append(list, v[1])
                  /\ (Identity(h).status = 200 /\ up.status # 403
                         /\ InList(v[1], list)) =>
                        Failed(up, 400, "Student is already signed up")

\* the member is logged in and signed up, and the new user is registered
C16_Witness ==
    /\ \E h \in CallerHeaders :
          IsMember(h) /\ Identity(h).body.email = "member@mergington.edu"
    /\ InList("member@mergington.edu", activities["Chess Club"].participants)
    /\ "new@mergington.edu" \in DOMAIN users

----------------------------------------------------------------------------
(* C17 - signup order *)

\* list without every entry equal to email, the others in their order
Without(list, email) ==
    LET Other(x) == x # email
    IN  SelectSeq(list, Other)

\* C17: a successful signup puts the lower-cased email at the end of the
\* list, which grows by one and keeps its earlier entries in place; a
\* successful unregister takes exactly that email out and keeps the others
\* in their order.
C17_SignupOrder ==
    \A h \in CallerHeaders, r \in AnyRosterRequests :
        LET up == signup_for_activity(Current, h, r[1], r[2])
            down == unregister_from_activity(Current, h, r[1], r[2])
        IN  /\ up.status = 200 =>
                  LET old == Participants(Current, r[1])
                      new == Participants(up.store, r[1])
                  IN  /\ Len(new) = Len(old) + 1
                      /\ new[Len(new)] = Lower(r[2])
                      /\ \A i \in 1..Len(old) : new[i] = old[i]
            /\ down.status = 200 =>
                  LET old == Participants(Current, r[1])
                      new == Participants(down.store, r[1])
                  IN  /\ Len(new) = Len(old) - 1
                      /\ new = Without(old, Lower(r[2]))

\* the member signed up between the seeded participants, so that an entry
\* in the middle and the first entry can be removed
C17_Witness ==
    /\ activities["Chess Club"].participants =
          <<"daniel@mergington.edu", "member@mergington.edu",
            "michael@mergington.edu">>
    /\ \E h \in CallerHeaders :
          unregister_from_activity(Current, h, "Chess Club",
                                   "daniel@mergington.edu").status = 200

----------------------------------------------------------------------------
(* C18 - logout revokes one token *)

Resolves(st, token) == get_current_user(st, Bearer(token))

\* C18: a login of a user who holds a session adds a session and keeps the
\* others; after a successful logout the presented token does not resolve,
\* every other active token resolves to the identity it resolved to before,
\* and users and activities are as they were.
C18_LogoutRevokesOneToken ==
    /\ \A p \in LoginRequests, t \in TokenStrings \ issued :
          LET login == login_user(Current, p, t)
          IN  login.status = 200 =>
                  /\ Resolves(login.store, t).status = 200
                  /\ \A t2 \in DOMAIN active_sessions :
                        /\ Resolves(login.store, t2).status = 200
                        /\ Resolves(login.store, t2).body
                              = Resolves(Current, t2).body
    /\ \A h \in Headers :
          LET logout == logout_user(Current, h)
          IN  logout.status = 200 =>
                  /\ Resolves(logout.store, HeaderToken(h)).status = 401
                  /\ logout.store.users = users
                  /\ logout.store.activities = activities
                  /\ \A t2 \in DOMAIN active_sessions \ {HeaderToken(h)} :
                        /\ Resolves(logout.store, t2).status = 200
                        /\ Resolves(logout.store, t2).body
                              = Resolves(Current, t2).body

\* one user holds two sessions and can log out of one of them
C18_Witness ==
    \E t1, t2 \in DOMAIN active_sessions :
        /\ t1 # t2
        /\ active_sessions[t1] = active_sessions[t2]
        /\ logout_user(Current, Bearer(t1)).status = 200

----------------------------------------------------------------------------
(* C19 - sessions refer to users *)

\* C19: every active token maps to an email that is a key of users, and no
\* header makes token resolution answer "User not found".
C19_SessionsReferToUsers ==
    /\ \A t \in DOMAIN active_sessions : active_sessions[t] \in DOMAIN users
    /\ \A h \in Headers :
          LET me == get_current_user(Current, h)
          IN  me.status # 200 => me.body.detail # "User not found"

\* two users hold a session, one of them registered after the start
C19_Witness ==
    \E t1, t2 \in DOMAIN active_sessions :
        /\ active_sessions[t1] = "new@mergington.edu"
        /\ active_sessions[t2] # "new@mergington.edu"

----------------------------------------------------------------------------
(* C20 - frame of the roster operations *)

\* st differs from the current store in the participants of activity_name
\* only
OnlyParticipantsOf(st, activity_name) ==
    /\ st.users = users
    /\ st.active_sessions = active_sessions
    /\ DOMAIN st.activities = DOMAIN activities
    /\ \A b \in DOMAIN activities \ {activity_name} :
          st.activities[b] = activities[b]
    /\ st.activities[activity_name].description
          = activities[activity_name].description
    /\ st.activities[activity_name].schedule
          = activities[activity_name].schedule
    /\ st.activities[activity_name].max_participants
          = activities[activity_name].max_participants
    /\ st.activities[activity_name].participants
          # activities[activity_name].participants

\* C20: a successful signup or unregister on an activity changes the
\* participant list of that activity and nothing else (not its description,
\* schedule or max_participants, no other activity, not the activity names,
\* users or active_sessions); the descriptions, schedules and capacities stay
\* the seeded ones; listing the activities and whoami change nothing.
C20_RosterFrame ==
    /\ \A h \in CallerHeaders, r \in AnyRosterRequests :
          LET up == signup_for_activity(Current, h, r[1], r[2])
              down == unregister_from_activity(Current, h, r[1], r[2])
          IN  /\ up.status = 200 => OnlyParticipantsOf(up.store, r[1])
              /\ down.status = 200 => OnlyParticipantsOf(down.store, r[1])
    /\ DOMAIN activities = DOMAIN SeedActivities
    /\ \A a \in DOMAIN activities :
          [activities[a] EXCEPT !.participants = <<>>]
             = [SeedActivities[a] EXCEPT !.participants = <<>>]
    /\ get_activities(Current).store = Current
    /\ get_activities(Current).body = activities
    /\ \A h \in Headers : get_me(Current, h).store = Current

\* both lists have changed while sessions are active
C20_Witness ==
    /\ InList("student02@mergington.edu",
              activities["Math Club"].participants)
    /\ ~InList("michael@mergington.edu",
               activities["Chess Club"].participants)
    /\ DOMAIN active_sessions # {}

====
